---------------------------- MODULE Spec2Model ----------------------------
(***************************************************************************)
(* dorkbot: target store, fingerprint dedup and blocklist filtering        *)
(* (src/dorkbot/dorkbot.py).                                               *)
(*                                                                         *)
(* Text is modelled as a sequence of tokens: "http://h/p?x=1" is           *)
(* <<"http", ":", "//", "h", "/", "p", "?", "x", "=", "1">>.  Splitting,   *)
(* prefix tests and joins act on the tokens as the Python string methods   *)
(* act on the characters.                                                  *)
(***************************************************************************)
EXTENDS Integers, Sequences, FiniteSets, TLC

\* The most rows the targets table holds
MaxRows == 2

\* Python's None, where a URL or a Target is expected
None == [none |-> TRUE]

\* no function has been called on its own: no argument, no result
Nothing == [done |-> FALSE]

SOURCES == {"s1", "s2"}
BACKENDS == {"sqlite3", "postgresql", "phoenixdb"}

-----------------------------------------------------------------------------
(* Text helpers *)

RECURSIVE Concat(_)
Concat(ss) == IF ss = <<>> THEN <<>> ELSE Head(ss) \o Concat(Tail(ss))

\* sep.join(parts), parts a sequence of token sequences
RECURSIVE Join(_, _)
Join(sep, parts) ==
    IF parts = <<>> THEN <<>>
    ELSE IF Len(parts) = 1 THEN parts[1]
    ELSE parts[1] \o <<sep>> \o Join(sep, Tail(parts))

\* s.split(sep): the pieces between the sep tokens (always at least one piece)
RECURSIVE Split(_, _)
Split(s, sep) ==
    IF \A i \in 1..Len(s) : s[i] # sep THEN <<s>>
    ELSE LET k == CHOOSE i \in 1..Len(s) :
                     s[i] = sep /\ \A j \in 1..(i-1) : s[j] # sep
         IN  <<SubSeq(s, 1, k-1)>> \o Split(SubSeq(s, k+1, Len(s)), sep)

\* s.startswith(p)
StartsWith(s, p) == Len(p) <= Len(s) /\ SubSeq(s, 1, Len(p)) = p

-----------------------------------------------------------------------------
(* URLs.  urlparse(url) yields netloc, path and query; a URL is kept as the  *)
(* three parts, each a token sequence, and url_text renders the string.      *)

Url(netloc, path, query) == [netloc |-> netloc, path |-> path, query |-> query]

\* the text of a URL, as stored in targets.url and matched by the regex rules
url_text(u) ==
    <<"http", ":", "//">> \o u.netloc \o u.path
        \o (IF u.query = <<>> THEN <<>> ELSE <<"?">> \o u.query)

HostH    == <<"h">>
HostEvil == <<"evil", ".", "com">>
\* sub.evil.com, good.example, and a host with a non-ASCII letter and an
\* empty label (the token "e-acute" stands for that letter)
HostSub  == <<"sub", ".">> \o HostEvil
HostGood == <<"good", ".", "example">>
HostBad  == <<"e-acute", ".", ".", "b">>

\* http://evil.com/p?x=<v>: the same fingerprint for every value v
U(v) == Url(HostEvil, <<"/", "p">>, <<"x", "=", v>>)
\* http://h/q?x=1
UOther == Url(HostH, <<"/", "q">>, <<"x", "=", "1">>)

\* the urls that indexers deliver and the commands are given
URLS == {U("1"), U("2"), UOther}

-----------------------------------------------------------------------------
(* generate_fingerprint *)

\* order of the parameter names under sorted(): the order of str, token by
\* token ("," < "a" < "x" < "y" < "z" < "|", a prefix before its extensions)
NAMES == <<",", "a", "x", "y", "z", "|">>
Rank(n) == IF \E i \in 1..Len(NAMES) : NAMES[i] = n
           THEN CHOOSE i \in 1..Len(NAMES) : NAMES[i] = n
           ELSE Len(NAMES) + 1

RECURSIVE NameLeq(_, _)
NameLeq(a, b) ==
    \/ a = <<>>
    \/ /\ b # <<>>
       /\ \/ Rank(a[1]) < Rank(b[1])
          \/ a[1] = b[1] /\ NameLeq(Tail(a), Tail(b))

RECURSIVE Insert(_, _)
Insert(n, s) ==
    IF s = <<>> THEN <<n>>
    ELSE IF NameLeq(n, Head(s)) THEN <<n>> \o s
    ELSE <<Head(s)>> \o Insert(n, Tail(s))

RECURSIVE sorted(_)
sorted(s) == IF s = <<>> THEN <<>> ELSE Insert(Head(s), sorted(Tail(s)))

\* param.split("=", 1)
Split1(s, sep) ==
    IF \A i \in 1..Len(s) : s[i] # sep THEN <<s>>
    ELSE LET k == CHOOSE i \in 1..Len(s) :
                     s[i] = sep /\ \A j \in 1..(i-1) : s[j] # sep
         IN  <<SubSeq(s, 1, k-1), SubSeq(s, k+1, Len(s))>>

\* the names of the parameters that carry a non-empty value, in query order
RECURSIVE Params(_)
Params(ps) ==
    IF ps = <<>> THEN <<>>
    ELSE LET split == Split1(Head(ps), "=")
         IN  (IF Len(split) = 2 /\ split[2] # <<>> THEN <<split[1]>> ELSE <<>>)
             \o Params(Tail(ps))

\* str(n) for the small counts that occur
DIGITS == <<"0", "1", "2", "3", "4", "5", "6", "7", "8", "9">>
str(n) == DIGITS[n + 1]

\* path.count("/")
Depth(path) == Cardinality({i \in 1..Len(path) : path[i] = "/"})

\* path.split("/")[-1]
Page(path) == LET parts == Split(path, "/") IN parts[Len(parts)]

\* md5 is taken to be injective: the digest is identified with the
\* canonical string it is computed from.
generate_hash(text) == text

\* generate_fingerprint without sorted()
generate_fingerprint_unsorted(url) ==
    LET netloc == url.netloc
        depth  == <<str(Depth(url.path))>>
        page   == Page(url.path)
        params == Params(Split(url.query, "&"))
    IN  generate_hash(Join("|", <<netloc, depth, page, Join(",", params)>>))

\* generate_fingerprint without the page
generate_fingerprint_no_page(url) ==
    LET netloc == url.netloc
        depth  == <<str(Depth(url.path))>>
        params == Params(Split(url.query, "&"))
    IN  generate_hash(Join("|", <<netloc, depth, Join(",", sorted(params))>>))

generate_fingerprint(url) ==
    LET netloc == url.netloc
        depth  == <<str(Depth(url.path))>>
        page   == Page(url.path)
        params == Params(Split(url.query, "&"))
    IN  generate_hash(Join("|", <<netloc, depth, page, Join(",", sorted(params))>>))

FPS == {generate_fingerprint(u) : u \in URLS}

-----------------------------------------------------------------------------
(* Target: the URL with its resolved host and address *)

\* target.host is None; target.ip is None; the attribute target.ip was never set
NoHost == <<"None">>
NoIp   == <<>>
Unset  == <<"Unset">>

\* ipaddress values: an address is its four octets
ADDRS == [a \in {"10.0.0.0", "10.0.0.5", "10.0.1.5", "10.0.1.0"} |->
            CASE a = "10.0.0.0" -> <<10, 0, 0, 0>>
              [] a = "10.0.0.5" -> <<10, 0, 0, 5>>
              [] a = "10.0.1.5" -> <<10, 0, 1, 5>>
              [] a = "10.0.1.0" -> <<10, 0, 1, 0>>]

\* socket.gethostbyname: the resolver's answers; a host it does not know
\* raises socket.gaierror, a host that cannot be encoded raises UnicodeError
gethostbyname(host) ==
    CASE host = HostH    -> "10.0.1.5"
      [] host = HostEvil -> "10.0.0.5"
      [] host = HostBad  -> "UnicodeError"
      [] OTHER           -> "gaierror"

\* url_parts.hostname: None when the URL has no network location
hostname(url) == IF url.netloc = <<>> THEN NoHost ELSE url.netloc

Target(url) ==
    LET host == hostname(url)
    IN  [url  |-> url,
         host |-> host,
         ip   |-> IF host = NoHost THEN Unset      \* TypeError: logged, ip never set
                  ELSE IF gethostbyname(host) = "UnicodeError" THEN Unset   \* the same
                  ELSE IF gethostbyname(host) = "gaierror" THEN NoIp
                  ELSE ADDRS[gethostbyname(host)]]

-----------------------------------------------------------------------------
(* Blocklist *)

\* ip_network's results: a network, or the ValueError it raises; Unbound is a
\* local variable that has no binding yet
ValueError == [kind |-> "ValueError"]
Unbound    == [kind |-> "Unbound"]
Network(addr, len) == [kind |-> "network", addr |-> addr, prefixlen |-> len]

\* re.compile's result for the empty pattern is never built: self.regex = None
NoRegex == {}

PREFIXLEN == [t \in {"8", "16", "24", "32"} |->
                CASE t = "8" -> 8 [] t = "16" -> 16 [] t = "24" -> 24 [] t = "32" -> 32]

Octets(len) == len \div 8

\* ipaddress.ip_network(text), strict: an address with an optional /prefix;
\* host bits set below the prefix are a ValueError
ip_network(text) ==
    LET parts == Split(text, "/")
    IN  IF Len(parts) > 2 \/ Len(parts[1]) # 1 THEN ValueError
        ELSE IF parts[1][1] \notin DOMAIN ADDRS THEN ValueError
        ELSE LET addr == ADDRS[parts[1][1]]
             IN  IF Len(parts) = 1 THEN Network(addr, 32)
                 ELSE IF Len(parts[2]) # 1 \/ parts[2][1] \notin DOMAIN PREFIXLEN
                      THEN ValueError
                 ELSE LET len == PREFIXLEN[parts[2][1]]
                      IN  IF \E i \in (Octets(len)+1)..4 : addr[i] # 0
                          THEN ValueError
                          ELSE Network(addr, len)

\* ip in ip_net
InNetwork(ip, net) == \A i \in 1..Octets(net.prefixlen) : ip[i] = net.addr[i]

\* One regex token against one token of the text
TokMatch(pt, t) ==
    \/ pt = t
    \/ pt = "."
    \/ pt = "\\." /\ t = "."
    \/ pt = "\\?" /\ t = "?"

\* re.match(pattern, text): the pattern matches a prefix of the text
RECURSIVE PatMatch(_, _)
PatMatch(p, s) ==
    IF p = <<>> THEN TRUE
    ELSE IF Head(p) = "^" THEN PatMatch(Tail(p), s)
    ELSE IF Head(p) = ".*"
         THEN \E k \in 0..Len(s) : PatMatch(Tail(p), SubSeq(s, k+1, Len(s)))
    ELSE s # <<>> /\ TokMatch(Head(p), Head(s)) /\ PatMatch(Tail(p), Tail(s))

\* re.compile("|".join(regex_set)): the alternation of the members, None when
\* the joined pattern is empty
re_compile(regex_set) ==
    IF regex_set = {} \/ regex_set = {<<>>} THEN NoRegex ELSE regex_set

\* A Blocklist instance: the three rule sets and the compiled alternation
EmptyBlocklist ==
    [ip_set |-> {}, host_set |-> {}, regex_set |-> {}, regex |-> NoRegex]

\* One item of parse_list's loop, on the loop's state: the instance (self),
\* the local variable ip_net and whether an exception has left the loop.
\* After a ValueError ip_net keeps its previous binding, and the add that
\* follows the except clause raises UnboundLocalError when it has none.
parse_item(st, item) ==
    IF st.raised THEN st
    ELSE IF StartsWith(item, <<"ip", ":">>) THEN
        LET net == ip_network(Split(item, ":")[2])
            ipn == IF net = ValueError THEN st.ip_net ELSE net
        IN  IF ipn = Unbound THEN [st EXCEPT !.raised = TRUE]
            ELSE [st EXCEPT !.ip_net = ipn, !.self.ip_set = @ \cup {ipn}]
    ELSE IF StartsWith(item, <<"host", ":">>) THEN
        [st EXCEPT !.self.host_set = @ \cup {Split(item, ":")[2]}]
    ELSE IF StartsWith(item, <<"regex", ":">>) THEN
        [st EXCEPT !.self.regex_set = @ \cup {Split(item, ":")[2]}]
    ELSE st

RECURSIVE parse_loop(_, _)
parse_loop(st, items) ==
    IF items = <<>> THEN st ELSE parse_loop(parse_item(st, Head(items)), Tail(items))

\* Blocklist.parse_list: [self |-> the instance afterwards, raised |-> whether
\* an exception escaped]
parse_list(self, items) ==
    LET st == parse_loop([self |-> self, ip_net |-> Unbound, raised |-> FALSE], items)
    IN  [self   |-> IF st.raised THEN st.self
                    ELSE [st.self EXCEPT !.regex = re_compile(st.self.regex_set)],
         raised |-> st.raised]

\* match_outcome with a listed host matching its subdomains too
match_outcome_subdomain(self, target) ==
    IF self.regex # NoRegex /\ \E p \in self.regex : PatMatch(p, url_text(target.url))
    THEN "True"
    ELSE IF \E h \in self.host_set :
                /\ Len(h) <= Len(target.host)
                /\ SubSeq(target.host, Len(target.host) - Len(h) + 1, Len(target.host)) = h
         THEN "True"
    ELSE IF self.ip_set = {} THEN "False"
    ELSE IF target.ip = Unset THEN "AttributeError"
    ELSE IF \E ip_net \in self.ip_set : target.ip # NoIp /\ InNetwork(target.ip, ip_net)
    THEN "True"
    ELSE "False"

\* Blocklist.match: what it returns, or the exception that leaves it.  The
\* loop over ip_set reads target.ip, an AttributeError when Target.__init__
\* never set it.
match_outcome(self, target) ==
    IF self.regex # NoRegex /\ \E p \in self.regex : PatMatch(p, url_text(target.url))
    THEN "True"
    ELSE IF target.host \in self.host_set THEN "True"
    ELSE IF self.ip_set = {} THEN "False"
    ELSE IF target.ip = Unset THEN "AttributeError"
    ELSE IF \E ip_net \in self.ip_set : target.ip # NoIp /\ InNetwork(target.ip, ip_net)
    THEN "True"
    ELSE "False"

\* Blocklist.match returned True
match(self, target) == match_outcome(self, target) = "True"

\* AnyMatch with only the internal list consulted
AnyMatch_internal(bls, target) == match(bls[1], target)

\* True in [blocklist.match(target) for blocklist in blocklists]
AnyMatch(bls, target) == \E i \in 1..Len(bls) : match(bls[i], target)

\* the sequences that list every member of a set once
Orders(S) == {s \in [1..Cardinality(S) -> S] : \A x \in S : \E i \in DOMAIN s : s[i] = x}

-----------------------------------------------------------------------------
(* The store (three tables), the process that uses it, and its history *)

\* host:evil.com and regex:.*x=2
ItemHostEvil == <<"host", ":">> \o HostEvil
ItemRegexV2  == <<"regex", ":", ".*", "x", "=", "2">>

\* the items given to the blocklist commands of the internal list
ITEMS == {ItemHostEvil}
\* the external blocklist files a run is started with (each a list of lines)
EXTERNALS == {<<>>, << <<ItemRegexV2>> >>}

\* what scanner.run returns: False, or a list of findings
False   == <<"False">>
RESULTS == {False, <<>>, <<"finding">>}

\* the values of args.count: -1 (no limit) and 0..MaxCount
MaxCount == 1

VARIABLES
    backend,       \* the driver chosen by TargetDatabase.__init__
    targets,       \* table targets: url -> [source, scanned]
    fingerprints,  \* table fingerprints
    blocklist,     \* table blocklist (items of the internal list)
    external,      \* the external blocklist files
    blocklists,    \* the Blocklist instances of the process, internal first
    pc,            \* where the process is
    mode,          \* "api": single calls; "scan": inside scan()
    cursor,        \* the rows the cursor c still has to deliver
    cand,          \* get_next_target: the candidate url
    ret,           \* get_next_target: the value returned (scan: target)
    examined,      \* get_next_target: the candidates of the current/last call
    attempt,       \* mark_scanned / get_scanned: the loop index i
    txn,           \* targets as of the start of the open transaction
    db,            \* self.db: the connections self.connect() has opened since
                   \* the call began (the one it began with is 0)
    cursor_db,     \* the connection the cursor c was opened on
    opened,        \* scan: the connections db.connect() opened in the loop
                   \* that no db.close() has closed
    db_open,       \* the TargetDatabase's self.db is open (TRUE) or was closed
                   \* by db.close() (FALSE)
    blocklist_db,  \* the internal Blocklist's self.db is open (TRUE) or was
                   \* closed by add or delete (FALSE)
    count,         \* scan: args.count
    scanned,       \* scan: the local counter
    scans,         \* scan: what became of each target the scanner ran on
    arg,           \* the argument of a function called on its own
    result,        \* and what the call gave
    claimed,       \* url -> times get_next_target returned it since the last
                   \*        flush_fingerprints (2 stands for "twice or more")
    flushed,       \* the urls that were claimed when flush_fingerprints ran,
                   \* while only get_next_target has been called since
    lastOp,        \* the operation entered last
    order          \* prune: the order in which the pass went over the rows,
                   \* while prune is the last operation

store   == <<backend, targets, fingerprints, blocklist, external>>
call    == <<cursor, cand, ret, examined, attempt, txn>>
conn    == <<db, cursor_db, opened, db_open, blocklist_db>>
proc    == <<blocklists, pc, mode, call>>
scanv   == <<count, scanned>>
pure    == <<arg, result>>
history == <<claimed, flushed, lastOp, order>>
vars    == <<store, proc, conn, scanv, scans, pure, history>>

NoRows == [u \in {} |-> [source |-> "s1", scanned |-> 0]]

\* the rows SELECT url FROM targets WHERE scanned != 1 delivers
Unscanned(t) == {u \in DOMAIN t : t[u].scanned # 1}

\* <insert> INTO targets (url, source) VALUES (url, source) <conflict>:
\*   sqlite3     INSERT OR REPLACE: the old row is removed, scanned is the default
\*   postgresql  INSERT .. ON CONFLICT DO NOTHING: an existing row is kept as it is
\*   phoenixdb   UPSERT: the named columns are written, scanned is kept
insert_target(be, t, url, source) ==
    LET fresh == [source |-> source, scanned |-> 0]
    IN  IF url \notin DOMAIN t THEN fresh
        ELSE CASE be = "sqlite3"    -> fresh
               [] be = "postgresql" -> t[url]
               [] be = "phoenixdb"  -> [t[url] EXCEPT !.source = source]

\* executemany of the same statement over urls
insert_targets(be, t, urls, source) ==
    [u \in DOMAIN t \cup urls |->
        IF u \in urls THEN insert_target(be, t, u, source) ELSE t[u]]

\* UPDATE targets SET scanned = 1 WHERE url = ?
update_scanned(t, url) ==
    [u \in DOMAIN t |-> IF u = url THEN [t[u] EXCEPT !.scanned = 1] ELSE t[u]]

\* DELETE FROM targets WHERE url = ?
delete_row(t, url) == [u \in DOMAIN t \ {url} |-> t[u]]

\* Blocklist.__init__ on the items read: parse_list(read_items())
Blocklist(items) == parse_list(EmptyBlocklist, items).self

\* main(): the internal list from the table, then one per external file
LoadBlocklists(internal_items, ext) ==
    <<Blocklist(internal_items)>> \o [i \in 1..Len(ext) |-> Blocklist(ext[i])]

\* the state main() starts from, on one of the given drivers and external
\* files, with one of the given arguments waiting for a call
Start(backends, externals, args) ==
    /\ backend \in backends
    /\ targets = NoRows
    /\ fingerprints = {}
    /\ blocklist = {}
    /\ external \in externals
    /\ blocklists = LoadBlocklists(<<>>, external)
    /\ pc = "idle"
    /\ mode = "api"
    /\ cursor = {}
    /\ cand = None
    /\ ret = None
    /\ examined = {}
    /\ attempt = 0
    /\ txn = NoRows
    /\ db = 0
    /\ cursor_db = 0
    /\ opened = 0
    /\ db_open = TRUE
    /\ blocklist_db = TRUE
    /\ count = 0
    /\ scanned = 0
    /\ scans = {}
    /\ arg \in args
    /\ result = Nothing
    /\ claimed = [u \in URLS |-> 0]
    /\ flushed = {}
    /\ lastOp = "init"
    /\ order = <<>>

Init == Start(BACKENDS, EXTERNALS, {Nothing})

\* a single call made while no other call is running
Idle == pc = "idle" /\ mode = "api"

\* a call other than get_next_target is entered: what the previous call left
\* behind is gone
Enter(op) ==
    /\ lastOp' = op
    /\ ret' = None
    /\ examined' = {}

\* the bookkeeping of a call that is one statement
Op(op) ==
    /\ Enter(op)
    /\ order' = <<>>
    /\ flushed' = {}
    /\ UNCHANGED <<scans, pure, claimed, blocklists, mode, cursor, cand, attempt, txn, scanv>>

\* the call returns; it neither connects nor closes
Done == pc' = pc /\ UNCHANGED conn

\* the call on a self.db that db.close() has closed: the statement raises
\* module.Error, which the call answers with sys.exit(1)
Closed(op) ==
    /\ ~db_open
    /\ pc' = "exited"
    /\ Op(op)
    /\ UNCHANGED <<store, conn>>

-----------------------------------------------------------------------------
(* TargetDatabase: the single-statement operations *)

\* the table has room for the rows of urls
Room(urls) == Cardinality(DOMAIN targets \cup urls) <= MaxRows

add_target(url, source) ==
    /\ Idle
    /\ \/ /\ db_open
          /\ Room({url})
          /\ targets' = insert_targets(backend, targets, {url}, source)
          /\ Op("add_target")
          /\ Done
          /\ UNCHANGED <<backend, fingerprints, blocklist, external>>
       \/ Closed("add_target")

add_targets(urls, source) ==
    /\ Idle
    /\ \/ /\ db_open
          /\ Room(urls)
          /\ targets' = insert_targets(backend, targets, urls, source)
          /\ Op("add_targets")
          /\ Done
          /\ UNCHANGED <<backend, fingerprints, blocklist, external>>
       \/ Closed("add_targets")

\* delete_target that removes the url's fingerprint with the row
delete_target_fingerprint(url) ==
    /\ Idle
    /\ \/ /\ db_open
          /\ targets' = delete_row(targets, url)
          /\ fingerprints' = fingerprints \ {generate_fingerprint(url)}
          /\ Op("delete_target")
          /\ Done
          /\ UNCHANGED <<backend, blocklist, external>>
       \/ Closed("delete_target")

delete_target(url) ==
    /\ Idle
    /\ \/ /\ db_open
          /\ targets' = delete_row(targets, url)
          /\ Op("delete_target")
          /\ Done
          /\ UNCHANGED <<backend, fingerprints, blocklist, external>>
       \/ Closed("delete_target")

\* flush_fingerprints without the UPDATE targets SET scanned = 0
flush_fingerprints_only ==
    /\ Idle
    /\ \/ /\ db_open
          /\ fingerprints' = {}
          /\ targets' = targets
          /\ Enter("flush_fingerprints")
          /\ flushed' = {u \in URLS : claimed[u] > 0}
          /\ claimed' = [u \in URLS |-> 0]
          /\ order' = <<>>
          /\ UNCHANGED <<scans, pure, conn, backend, blocklist, external, blocklists, pc, mode,
                         cursor, cand, attempt, txn, scanv>>
       \/ Closed("flush_fingerprints")

flush_fingerprints ==
    /\ Idle
    /\ \/ /\ db_open
          /\ fingerprints' = {}
          /\ targets' = [u \in DOMAIN targets |-> [targets[u] EXCEPT !.scanned = 0]]
          /\ Enter("flush_fingerprints")
          /\ flushed' = {u \in URLS : claimed[u] > 0}
          /\ claimed' = [u \in URLS |-> 0]
          /\ order' = <<>>
          /\ UNCHANGED <<scans, pure, conn, backend, blocklist, external, blocklists, pc, mode,
                         cursor, cand, attempt, txn, scanv>>
       \/ Closed("flush_fingerprints")

\* flush_targets that empties the fingerprints table as well
flush_targets_all ==
    /\ Idle
    /\ \/ /\ db_open
          /\ targets' = NoRows
          /\ fingerprints' = {}
          /\ Op("flush_targets")
          /\ Done
          /\ UNCHANGED <<backend, blocklist, external>>
       \/ Closed("flush_targets")

flush_targets ==
    /\ Idle
    /\ \/ /\ db_open
          /\ targets' = NoRows
          /\ Op("flush_targets")
          /\ Done
          /\ UNCHANGED <<backend, fingerprints, blocklist, external>>
       \/ Closed("flush_targets")

-----------------------------------------------------------------------------
(* TargetDatabase.get_next_target, statement by statement.  One cursor c     *)
(* serves the candidate query, mark_scanned's UPDATE and get_scanned's       *)
(* SELECT: each execute replaces the rows the cursor delivers.  Rows come    *)
(* in no particular order (the query has no ORDER BY, or ORDER BY RANDOM()). *)

\* with self.db, closing(self.db.cursor()) as c: c.execute(sql)
BeginClaim ==
    /\ pc' = "fetch"
    /\ cursor' = Unscanned(targets)
    /\ cursor_db' = db
    /\ db' = db
    /\ txn' = targets
    /\ cand' = None
    /\ ret' = None
    /\ examined' = {}
    /\ attempt' = 0
    /\ order' = <<>>

\* return target: the transaction is committed, the cursor closed
Return(target) ==
    /\ ret' = target
    /\ cursor' = {}
    /\ db' = 0
    /\ cursor_db' = 0
    /\ opened' = opened
    /\ db_open' = db_open
    /\ blocklist_db' = blocklist_db
    /\ cand' = None
    /\ attempt' = 0
    /\ txn' = NoRows
    /\ claimed' = IF target = None THEN claimed
                  ELSE [claimed EXCEPT ![target] = IF @ = 0 THEN 1 ELSE 2]
    /\ pc' = IF mode = "api" THEN "idle" ELSE "claimed"

\* on a closed self.db, self.db.cursor() raises module.Error: sys.exit(1)
get_next_target ==
    /\ Idle
    /\ lastOp' = "get_next_target"
    /\ \/ /\ db_open
          /\ BeginClaim
          /\ UNCHANGED <<opened, db_open, blocklist_db>>
       \/ /\ ~db_open
          /\ pc' = "exited"
          /\ ret' = None
          /\ examined' = {}
          /\ order' = <<>>
          /\ UNCHANGED <<conn, cursor, cand, attempt, txn>>
    /\ UNCHANGED <<scans, pure, store, blocklists, mode, scanv, claimed, flushed>>

\* row = c.fetchone() delivers a row: url = row[0]
fetch_row ==
    /\ pc = "fetch"
    /\ \E url \in cursor :
        /\ cand' = url
        /\ cursor' = cursor \ {url}
        /\ examined' = examined \cup {url}
    /\ pc' = "mark"
    /\ attempt' = 0
    /\ UNCHANGED <<scans, pure, conn, store, blocklists, mode, ret, txn, scanv, history>>

\* row = c.fetchone() delivers nothing: target = None; break
fetch_none ==
    /\ pc = "fetch"
    /\ cursor = {}
    /\ Return(None)
    /\ UNCHANGED <<scans, pure, store, blocklists, mode, examined, scanv, flushed, lastOp, order>>

\* for i in range(3): the loop index after one more round, and where the
\* process is once the loop has run out
NextAttempt(after) ==
    IF attempt < 2 THEN attempt' = attempt + 1 /\ pc' = pc
    ELSE attempt' = 0 /\ pc' = after

\* mark_scanned whose UPDATE changes no row
mark_scanned_skip ==
    /\ pc = "mark"
    /\ cursor' = {}
    /\ NextAttempt("lookup")
    /\ UNCHANGED <<scans, pure, conn, store, blocklists, mode,
                   cand, ret, examined, txn, scanv, history>>

\* mark_scanned, one round whose UPDATE succeeds (there is no break: the
\* loop goes on to the next round)
mark_scanned ==
    /\ pc = "mark"
    /\ targets' = update_scanned(targets, cand)
    /\ cursor' = {}
    /\ NextAttempt("lookup")
    /\ UNCHANGED <<scans, pure, conn, backend, fingerprints, blocklist, external, blocklists, mode,
                   cand, ret, examined, txn, scanv, history>>

\* get_scanned that finds no fingerprint recorded
get_scanned_none ==
    /\ pc = "lookup"
    /\ cursor' = {}
    /\ pc' = "insert"
    /\ attempt' = 0
    /\ UNCHANGED <<scans, pure, conn, store, blocklists, mode, cand, ret, examined, txn, scanv, history>>

\* get_scanned, a round whose SELECT succeeds: row = cursor.fetchone(); break.
\* A found fingerprint: continue, back to c.fetchone() on the same cursor.
get_scanned ==
    /\ pc = "lookup"
    /\ LET fingerprint == generate_fingerprint(cand)
           rows == {f \in fingerprints : f = fingerprint}
       IN  /\ cursor' = rows \ {fingerprint}
           /\ pc' = IF rows # {} THEN "fetch" ELSE "insert"
    /\ attempt' = 0
    /\ UNCHANGED <<scans, pure, conn, store, blocklists, mode, cand, ret, examined, txn, scanv, history>>

\* <insert> INTO fingerprints VALUES (fingerprint); break; return target
insert_fingerprint ==
    /\ pc = "insert"
    /\ fingerprints' = fingerprints \cup {generate_fingerprint(cand)}
    /\ Return(cand)
    /\ UNCHANGED <<scans, pure, backend, targets, blocklist, external, blocklists, mode,
                   examined, scanv, flushed, lastOp, order>>

-----------------------------------------------------------------------------
(* TargetDatabase.prune, one pass over urls in the order given *)

\* the pass with fingerprints.add(fingerprint) ahead of the blocklist test
RECURSIVE prune_loop_add_first(_, _, _, _, _)
prune_loop_add_first(t, fps, bls, seen, urls) ==
    IF urls = <<>> THEN t
    ELSE LET url == Head(urls)
             fingerprint == generate_fingerprint(url)
         IN  IF fingerprint \in seen \/ fingerprint \in fps
             THEN prune_loop_add_first(update_scanned(t, url), fps, bls, seen, Tail(urls))
             ELSE IF AnyMatch(bls, Target(url))
             THEN prune_loop_add_first(delete_row(t, url), fps, bls,
                                       seen \cup {fingerprint}, Tail(urls))
             ELSE prune_loop_add_first(t, fps, bls, seen \cup {fingerprint}, Tail(urls))

\* the pass with the blocklist test ahead of the fingerprint test
RECURSIVE prune_loop_match_first(_, _, _, _, _)
prune_loop_match_first(t, fps, bls, seen, urls) ==
    IF urls = <<>> THEN t
    ELSE LET url == Head(urls)
             fingerprint == generate_fingerprint(url)
         IN  IF AnyMatch(bls, Target(url))
             THEN prune_loop_match_first(delete_row(t, url), fps, bls, seen, Tail(urls))
             ELSE IF fingerprint \in seen \/ fingerprint \in fps
             THEN prune_loop_match_first(update_scanned(t, url), fps, bls, seen, Tail(urls))
             ELSE prune_loop_match_first(t, fps, bls, seen \cup {fingerprint}, Tail(urls))

RECURSIVE prune_loop(_, _, _, _, _)
prune_loop(t, fps, bls, seen, urls) ==
    IF urls = <<>> THEN t
    ELSE LET url == Head(urls)
             fingerprint == generate_fingerprint(url)
         IN  IF fingerprint \in seen \/ fingerprint \in fps
             THEN prune_loop(update_scanned(t, url), fps, bls, seen, Tail(urls))
             ELSE IF AnyMatch(bls, Target(url))
             THEN prune_loop(delete_row(t, url), fps, bls, seen, Tail(urls))
             ELSE prune_loop(t, fps, bls, seen \cup {fingerprint}, Tail(urls))

\* prune(db, blocklists, args): db.connect(); db.prune(...); db.close().
\* self.get_urls(), and random.shuffle(urls) if randomize, leave urls in
\* some order; then the pass over them
prune(urls, randomize) ==
    /\ Idle
    /\ targets' = prune_loop(targets, fingerprints, blocklists, {}, urls)
    /\ Enter(IF randomize THEN "prune_random" ELSE "prune")
    /\ order' = urls
    /\ flushed' = {}
    /\ db_open' = FALSE
    /\ UNCHANGED <<scans, pure, db, cursor_db, opened, blocklist_db, backend, fingerprints,
                   blocklist, external, blocklists, pc, mode, cursor, cand, attempt, txn, scanv,
                   claimed>>

-----------------------------------------------------------------------------
(* Blocklist commands on the internal list, and a new run of main() *)

\* Blocklist.add: [self |-> the instance afterwards, exit |-> sys.exit(1)]
add(self, item) ==
    IF StartsWith(item, <<"ip", ":">>) THEN
        LET ip_net == ip_network(Split(item, ":")[2])
        IN  IF ip_net = ValueError THEN [self |-> self, exit |-> TRUE]
            ELSE [self |-> [self EXCEPT !.ip_set = @ \cup {ip_net}], exit |-> FALSE]
    ELSE IF StartsWith(item, <<"host", ":">>) THEN
        [self |-> [self EXCEPT !.host_set = @ \cup {Split(item, ":")[2]}], exit |-> FALSE]
    ELSE IF StartsWith(item, <<"regex", ":">>) THEN
        [self |-> [self EXCEPT !.regex_set = @ \cup {Split(item, ":")[2]}], exit |-> FALSE]
    ELSE [self |-> self, exit |-> TRUE]

blocklist_add(item) ==
    /\ Idle
    /\ ~add(blocklists[1], item).exit
    /\ blocklists' = [blocklists EXCEPT ![1] = add(@, item).self]
    /\ IF backend = "postgresql" /\ item \in blocklist
       THEN \* INSERT without a conflict clause on a row that exists:
            \* module.Error, sys.exit(1) before self.close()
            /\ blocklist' = blocklist
            /\ pc' = "exited"
            /\ blocklist_db' = TRUE
       ELSE /\ blocklist' = blocklist \cup {item}
            /\ pc' = pc
            /\ blocklist_db' = FALSE
    /\ Enter("blocklist")
    /\ order' = <<>>
    /\ flushed' = {}
    /\ UNCHANGED <<scans, pure, db, cursor_db, opened, db_open, backend, targets, fingerprints, external,
                   mode, cursor, cand, attempt, txn, scanv, claimed>>

\* Blocklist.delete: self.connect(), the row goes, self.close(); the
\* instance's sets stay
blocklist_delete(item) ==
    /\ Idle
    /\ blocklist' = blocklist \ {item}
    /\ blocklist_db' = FALSE
    /\ Enter("blocklist")
    /\ order' = <<>>
    /\ flushed' = {}
    /\ UNCHANGED <<scans, pure, db, cursor_db, opened, db_open, backend, targets, fingerprints, external,
                   blocklists, pc, mode, cursor, cand, attempt, txn, scanv, claimed>>

\* Blocklist.flush: there is no self.connect(); on a self.db that add or
\* delete has closed the DELETE raises module.Error and the process ends in
\* sys.exit(1), the table and the sets as they were
blocklist_flush ==
    /\ Idle
    /\ IF blocklist_db
       THEN /\ blocklist' = {}
            /\ blocklists' = [blocklists EXCEPT ![1] = EmptyBlocklist]
            /\ pc' = pc
       ELSE /\ blocklist' = blocklist
            /\ blocklists' = blocklists
            /\ pc' = "exited"
    /\ Enter("blocklist")
    /\ order' = <<>>
    /\ flushed' = {}
    /\ UNCHANGED <<scans, pure, conn, backend, targets, fingerprints, external, mode, cursor, cand,
                   attempt, txn, scanv, claimed>>

\* main()'s db.close() (l.81 after the commands, l.116 at its end), on the
\* open connection main() calls it with
close ==
    /\ Idle
    /\ db_open
    /\ db_open' = FALSE
    /\ pc' = pc
    /\ Op("close")
    /\ UNCHANGED <<store, db, cursor_db, opened, blocklist_db>>

\* main()'s second db = TargetDatabase(args.database) (l.104): __init__
\* connects (l.455) and creates the tables that are missing, which are none;
\* the Blocklist instances and their connections are as they were
TargetDatabase_init ==
    /\ Idle
    /\ db_open' = TRUE
    /\ pc' = pc
    /\ Op("TargetDatabase")
    /\ UNCHANGED <<store, db, cursor_db, opened, blocklist_db>>

\* main() starts again (l.56-68): TargetDatabase(args.database) connects, the
\* Blocklist instances are built from the table and the files (read_items
\* delivers the rows in some order)
restart ==
    /\ pc \in {"idle", "exited", "crashed"}
    /\ mode = "api"
    /\ \E items \in Orders(blocklist) :
           blocklists' = LoadBlocklists(items, external)
    /\ pc' = "idle"
    /\ db_open' = TRUE
    /\ blocklist_db' = TRUE
    /\ Enter("restart")
    /\ order' = <<>>
    /\ flushed' = {}
    /\ UNCHANGED <<scans, pure, db, cursor_db, opened, store, mode, cursor, cand, attempt, txn, scanv, claimed>>

-----------------------------------------------------------------------------
(* index and scan *)

\* index: the indexer's urls that match no blocklist go to add_targets,
\* between db.connect() and db.close()
index(urls, source) ==
    /\ Idle
    /\ LET kept == {url \in urls : ~AnyMatch(blocklists, Target(url))}
       IN  /\ Room(kept)
           /\ targets' = insert_targets(backend, targets, kept, source)
    /\ Op("index")
    /\ pc' = pc
    /\ db_open' = FALSE
    /\ UNCHANGED <<db, cursor_db, opened, blocklist_db, backend, fingerprints, blocklist, external>>

\* scan() is entered: scanned = 0
scan(n) ==
    /\ Idle
    /\ mode' = "scan"
    /\ pc' = "loop"
    /\ count' = n
    /\ scanned' = 0
    /\ scans' = {}
    /\ Enter("scan")
    /\ order' = <<>>
    /\ flushed' = {}
    /\ UNCHANGED <<pure, conn, store, blocklists, cursor, cand, attempt, txn, claimed>>

\* while scanned < args.count or args.count == -1: db.connect();
\* target = db.get_next_target(...)
scan_next ==
    /\ pc = "loop"
    /\ scanned < count \/ count = -1
    /\ BeginClaim
    /\ opened' = opened + 1
    /\ db_open' = TRUE
    /\ UNCHANGED <<blocklist_db, scans, pure, store, blocklists, mode, scanv, claimed, flushed, lastOp>>

\* scan returns; its locals are gone, and what it left open is no longer
\* counted
ScanReturn ==
    /\ pc' = "idle"
    /\ mode' = "api"
    /\ count' = 0
    /\ scanned' = 0
    /\ scans' = {}
    /\ ret' = None
    /\ examined' = {}
    /\ opened' = 0
    /\ UNCHANGED <<pure, db, cursor_db, db_open, blocklist_db, store, blocklists, cursor, cand,
                   attempt, txn, history>>

\* the while condition is false
scan_end ==
    /\ pc = "loop"
    /\ ~(scanned < count \/ count = -1)
    /\ ScanReturn

\* if not target: break
scan_break ==
    /\ pc = "claimed"
    /\ ret = None
    /\ ScanReturn

\* the claimed target matches a blocklist: db.delete_target(target.url); continue
scan_delete ==
    /\ pc = "claimed"
    /\ ret # None
    /\ AnyMatch(blocklists, Target(ret))
    /\ targets' = delete_row(targets, ret)
    /\ pc' = "loop"
    /\ UNCHANGED <<scans, pure, conn, backend, fingerprints, blocklist, external, blocklists, mode,
                   call, scanv, history>>

\* db.close(); results = scanner.run(scanner_args, target) is called
scan_run ==
    /\ pc = "claimed"
    /\ ret # None
    /\ ~AnyMatch(blocklists, Target(ret))
    /\ pc' = "scanning"
    /\ opened' = opened - 1
    /\ db_open' = FALSE
    /\ UNCHANGED <<scans, pure, db, cursor_db, blocklist_db, store, blocklists, mode, call, scanv, history>>

\* scan_result that writes the report whatever the scanner returned
scan_result_report(results) ==
    /\ pc = "scanning"
    /\ scanned' = scanned + 1
    /\ scans' = scans \cup {[url |-> ret, results |-> results, report |-> TRUE]}
    /\ pc' = "loop"
    /\ UNCHANGED <<pure, conn, store, blocklists, mode, call, count, history>>

\* scan_result that does not count a failed scan
scan_result_uncounted(results) ==
    /\ pc = "scanning"
    /\ scanned' = IF results = False THEN scanned ELSE scanned + 1
    /\ scans' = scans \cup {[url |-> ret, results |-> results,
                              report |-> results # False]}
    /\ pc' = "loop"
    /\ UNCHANGED <<pure, conn, store, blocklists, mode, call, count, history>>

\* the scanner returns; scanned += 1; if results == False: continue; else
\* target.write_report(...)
scan_result(results) ==
    /\ pc = "scanning"
    /\ scanned' = scanned + 1
    /\ scans' = scans \cup {[url |-> ret, results |-> results,
                              report |-> results # False]}
    /\ pc' = "loop"
    /\ UNCHANGED <<pure, conn, store, blocklists, mode, call, count, history>>

-----------------------------------------------------------------------------

Next ==
    \/ \E url \in URLS : add_target(url, "s1")
    \/ \E urls \in SUBSET URLS : add_targets(urls, "s1")
    \/ \E url \in URLS : delete_target(url)
    \/ flush_fingerprints
    \/ flush_targets
    \/ get_next_target
    \/ fetch_row
    \/ fetch_none
    \/ mark_scanned
    \/ get_scanned
    \/ insert_fingerprint
    \/ \E urls \in Orders(DOMAIN targets), randomize \in BOOLEAN :
          prune(urls, randomize)
    \/ \E item \in ITEMS : blocklist_add(item)
    \/ \E item \in ITEMS : blocklist_delete(item)
    \/ blocklist_flush
    \/ restart
    \/ close
    \/ TargetDatabase_init
    \/ \E urls \in SUBSET URLS : index(urls, "s1")
    \/ \E n \in -1..MaxCount : scan(n)
    \/ scan_next
    \/ scan_end
    \/ scan_break
    \/ scan_delete
    \/ scan_run
    \/ \E results \in RESULTS : scan_result(results)

Spec == Init /\ [][Next]_vars

\* runs of main() that fill the table, change the internal blocklist, forget
\* the fingerprints, and scan
NextScan ==
    \/ \E urls \in SUBSET URLS : add_targets(urls, "s1")
    \/ \E item \in ITEMS : blocklist_add(item)
    \/ restart
    \/ flush_fingerprints
    \/ \E n \in -1..MaxCount : scan(n)
    \/ scan_next
    \/ fetch_row
    \/ fetch_none
    \/ mark_scanned
    \/ get_scanned
    \/ insert_fingerprint
    \/ scan_end
    \/ scan_break
    \/ scan_delete
    \/ scan_run
    \/ \E results \in RESULTS : scan_result(results)

\* scan() is a sequential loop: once entered, the process goes on with its
\* next statement until scan returns
ScanStep == mode = "scan" /\ NextScan

SpecScan == Init /\ [][NextScan]_vars /\ WF_vars(ScanStep)

-----------------------------------------------------------------------------
(* Driver errors inside get_next_target.  cursor.execute may raise           *)
(* self.module.Error in any round of mark_scanned and get_scanned: with one  *)
(* of the two disconnect messages the round is given up (self.connect();     *)
(* continue), with any other message the process ends in sys.exit(1).        *)

\* the exception leaves the with block: sqlite3 and psycopg2 roll the open
\* transaction back, phoenixdb runs with autocommit; the process is gone
Abort(to) ==
    /\ pc' = to
    /\ targets' = IF backend = "phoenixdb" THEN targets ELSE txn
    /\ db' = 0
    /\ cursor_db' = 0
    /\ opened' = 0
    /\ db_open' = db_open
    /\ blocklist_db' = blocklist_db
    /\ mode' = "api"
    /\ cursor' = {}
    /\ cand' = None
    /\ ret' = None
    /\ examined' = {}
    /\ attempt' = 0
    /\ txn' = NoRows
    /\ count' = 0
    /\ scanned' = 0
    /\ scans' = {}
    /\ UNCHANGED <<pure, backend, fingerprints, blocklist, external, blocklists, history>>

\* mark_scanned, a round whose UPDATE raises a disconnect: the warning,
\* self.connect(), continue; after the third round mark_scanned returns
mark_scanned_lost ==
    /\ pc = "mark"
    /\ NextAttempt("lookup")
    /\ db' = db + 1
    /\ UNCHANGED <<scans, pure, store, blocklists, mode, cursor, cursor_db, opened, db_open,
                   blocklist_db, cand, ret, examined, txn, scanv, history>>

\* mark_scanned, a round whose UPDATE raises another error: sys.exit(1)
mark_scanned_error ==
    /\ pc = "mark"
    /\ Abort("exited")

\* get_scanned whose third failed round lets the call go on with "not found"
get_scanned_lost_not_found ==
    /\ pc = "lookup"
    /\ IF attempt < 2 THEN attempt' = attempt + 1 /\ pc' = pc
       ELSE attempt' = 0 /\ pc' = "insert"
    /\ db' = db + 1
    /\ UNCHANGED <<scans, pure, store, blocklists, mode, cursor, cursor_db, opened, db_open,
                   blocklist_db, cand, ret, examined, txn, scanv, history>>

\* get_scanned, a round whose SELECT raises a disconnect: self.connect();
\* continue; after the third round `if row` reads a local that was never
\* bound (UnboundLocalError), which nothing catches
get_scanned_lost ==
    /\ pc = "lookup"
    /\ IF attempt < 2
       THEN /\ attempt' = attempt + 1
            /\ db' = db + 1
            /\ UNCHANGED <<scans, pure, store, blocklists, pc, mode, cursor, cursor_db, opened,
                           db_open, blocklist_db, cand, ret, examined, txn, scanv, history>>
       ELSE Abort("crashed")

\* get_scanned, a round whose SELECT raises another error: sys.exit(1)
get_scanned_error ==
    /\ pc = "lookup"
    /\ Abort("exited")

\* a round whose statement raises a disconnect and whose self.connect() raises
\* module.Error: sys.exit(1)
connect_error ==
    /\ pc \in {"mark", "lookup"}
    /\ Abort("exited")

NextFault ==
    \/ \E urls \in SUBSET URLS : add_targets(urls, "s1")
    \/ flush_fingerprints
    \/ get_next_target
    \/ fetch_row
    \/ fetch_none
    \/ mark_scanned
    \/ mark_scanned_lost
    \/ mark_scanned_error
    \/ get_scanned
    \/ get_scanned_lost
    \/ get_scanned_error
    \/ connect_error
    \/ insert_fingerprint
    \/ restart

SpecFault == Init /\ [][NextFault]_vars

-----------------------------------------------------------------------------
(* add_target and add_targets called with either source *)

NextUpsert ==
    \/ \E url \in URLS, source \in SOURCES : add_target(url, source)
    \/ \E urls \in SUBSET URLS, source \in SOURCES : add_targets(urls, source)
    \/ \E url \in URLS : delete_target(url)
    \/ get_next_target
    \/ fetch_row
    \/ fetch_none
    \/ mark_scanned
    \/ get_scanned
    \/ insert_fingerprint

SpecUpsert == Init /\ [][NextUpsert]_vars

-----------------------------------------------------------------------------
(* generate_fingerprint called on its own, on two urls of one host *)

\* the most parameters in a query
MaxParams == 2

\* x=1, x=2, x=, y=1, and parameters whose name is empty (=1), holds the ","
\* that joins the names (x,y=1) or the "|" that joins the fields (x|=1)
PARAMS == {<<"x", "=", "1">>, <<"x", "=", "2">>, <<"x", "=">>, <<"y", "=", "1">>,
           <<"=", "1">>, <<"x", ",", "y", "=", "1">>, <<"x", "|", "=", "1">>}
\* /x, /a/x, /b/x, /a/y, and a page that holds a "|" (/x|x)
PATHS  == {<<"/", "x">>, <<"/", "a", "/", "x">>, <<"/", "b", "/", "x">>,
           <<"/", "a", "/", "y">>, <<"/", "x", "|", "x">>}

\* the sequences over S of length up to n
Seqs(S, n) == UNION {[1..k -> S] : k \in 0..n}

QUERIES == {Join("&", ps) : ps \in Seqs(PARAMS, MaxParams)}
FPURLS  == {Url(HostH, path, query) : path \in PATHS, query \in QUERIES}

call_generate_fingerprint ==
    /\ result = Nothing
    /\ result' = [done |-> TRUE,
                  u |-> generate_fingerprint(arg.u),
                  v |-> generate_fingerprint(arg.v)]
    /\ UNCHANGED <<store, proc, conn, scanv, scans, arg, history>>

NextFingerprint == call_generate_fingerprint

SpecFingerprint ==
    /\ Start({"sqlite3"}, {<<>>}, {[u |-> a, v |-> b] : a \in FPURLS, b \in FPURLS})
    /\ [][NextFingerprint]_vars

-----------------------------------------------------------------------------
(* A Blocklist built from a list of items, and match called on one target *)

\* the most items in a list
MaxItems == 2

\* ip:10.0.0.0/24, ip:10.0.0.5/24 (host bits set), regex:^http://evil\. and
\* bogus:foo
ItemIp24      == <<"ip", ":", "10.0.0.0", "/", "24">>
ItemIpBad     == <<"ip", ":", "10.0.0.5", "/", "24">>
ItemRegexEvil == <<"regex", ":", "^", "http", ":", "//", "evil", "\\.">>
ItemBogus     == <<"bogus", ":", "foo">>

MATCHITEMS == {ItemIp24, ItemIpBad, ItemHostEvil, ItemRegexV2, ItemRegexEvil, ItemBogus}

\* http://sub.evil.com/p, http://good.example/, http:///p and a url of HostBad
USub    == Url(HostSub, <<"/", "p">>, <<>>)
UGood   == Url(HostGood, <<"/">>, <<>>)
UNoHost == Url(<<>>, <<"/", "p">>, <<>>)
UBad    == Url(HostBad, <<"/", "p">>, <<>>)

MATCHURLS == {U("2"), UOther, USub, UGood, UNoHost, UBad}

\* Blocklist.__init__ on a list of items: parse_list on fresh sets
call_parse_list ==
    /\ result = Nothing
    /\ LET r == parse_list(EmptyBlocklist, arg.items)
       IN  result' = [done |-> FALSE, self |-> r.self, raised |-> r.raised]
    /\ UNCHANGED <<store, proc, conn, scanv, scans, arg, history>>

\* Target(url) and blocklist.match(target), as index and scan call it
call_match ==
    /\ result # Nothing
    /\ ~result.done
    /\ ~result.raised
    /\ result' = [done    |-> TRUE,
                  self    |-> result.self,
                  raised  |-> FALSE,
                  target  |-> Target(arg.url),
                  outcome |-> match_outcome(result.self, Target(arg.url))]
    /\ UNCHANGED <<store, proc, conn, scanv, scans, arg, history>>

NextMatch ==
    \/ call_parse_list
    \/ call_match

SpecMatch ==
    /\ Start({"sqlite3"}, {<<>>},
             {[items |-> items, url |-> url] :
                  items \in Seqs(MATCHITEMS, MaxItems), url \in MATCHURLS})
    /\ [][NextMatch]_vars

-----------------------------------------------------------------------------
(* The blocklist commands of main() on the internal list, run after run *)

\* regex:.*/p
ItemRegexP == <<"regex", ":", ".*", "/", "p">>

\* the items given to --add-blocklist-item and --delete-blocklist-item
BLITEMS == {ItemHostEvil, ItemIp24, ItemRegexV2, ItemRegexP}

\* str(ip_net[0]) and str(ip_net): the address, and the address with /prefix
addr_text(addr) == CHOOSE a \in DOMAIN ADDRS : ADDRS[a] = addr
len_text(len)   == CHOOSE t \in DOMAIN PREFIXLEN : PREFIXLEN[t] = len

\* Blocklist.get_parsed_items: the items of the instance's sets (as a set:
\* the list follows the iteration order of the sets)
get_parsed_items(self) ==
    {<<"ip", ":">> \o (IF n.prefixlen = 32 THEN <<addr_text(n.addr)>>
                        ELSE <<addr_text(n.addr), "/", len_text(n.prefixlen)>>) :
         n \in self.ip_set}
    \cup {<<"host", ":">> \o h : h \in self.host_set}
    \cup {<<"regex", ":">> \o r : r \in self.regex_set}

NextBlocklist ==
    \/ \E item \in BLITEMS : blocklist_add(item)
    \/ \E item \in BLITEMS : blocklist_delete(item)
    \/ blocklist_flush
    \/ restart

SpecBlocklist == Start(BACKENDS, {<<>>}, {Nothing}) /\ [][NextBlocklist]_vars

-----------------------------------------------------------------------------
(* Properties *)

fp(u) == generate_fingerprint(u)

\* get_next_target has returned (to the caller of the single call, or to scan)
Returned == \/ pc = "idle" /\ lastOp = "get_next_target"
            \/ pc = "claimed"

\* some Blocklist instance of the process matches the url
MatchesSome(u) == \E i \in DOMAIN blocklists : match(blocklists[i], Target(u))

\* C1: between two flush_fingerprints, get_next_target returns no url twice
\* and no two urls of equal fingerprint; a candidate it examined and did not
\* return has its fingerprint recorded and is marked scanned.
C1_AtMostOnce ==
    /\ \A u \in URLS : claimed[u] <= 1
    /\ \A u, v \in URLS :
          u # v /\ fp(u) = fp(v) => claimed[u] + claimed[v] <= 1
    /\ Returned =>
          \A u \in examined \ {ret} :
              /\ fp(u) \in fingerprints
              /\ u \in DOMAIN targets /\ targets[u].scanned = 1

\* a duplicate was skipped: the call examined a url whose fingerprint another,
\* claimed url had recorded, marked it scanned and did not return it
C1_Witness ==
    /\ Returned
    /\ \E u \in examined, v \in URLS :
          /\ u # ret /\ v # u /\ claimed[v] = 1 /\ claimed[u] = 0
          /\ fp(u) = fp(v)
          /\ targets[u].scanned = 1

\* C2: index writes no row for a url that an instance matches; the scanner
\* never runs on a claimed target that an instance matches, and scan has
\* deleted such a target when it goes round the loop again.
C2_BlocklistedNeverProcessed ==
    /\ [](pc = "scanning" => ~MatchesSome(ret))
    /\ [](pc = "loop" /\ ret # None /\ MatchesSome(ret) => ret \notin DOMAIN targets)
    /\ [][lastOp' = "index" =>
            \A u \in DOMAIN targets' :
                MatchesSome(u) => u \in DOMAIN targets /\ targets'[u] = targets[u]]_vars

\* scan claimed a target that only the second (external) instance matches and
\* deleted it
C2_Witness ==
    /\ pc = "loop" /\ ret # None
    /\ Len(blocklists) = 2
    /\ match(blocklists[2], Target(ret)) /\ ~match(blocklists[1], Target(ret))
    /\ ret \notin DOMAIN targets

\* C3: when get_next_target returns None no row with scanned != 1 is left.
C3_NoneOnlyWhenExhausted ==
    Returned /\ ret = None => Unscanned(targets) = {}

\* C4: the scanned flag of the candidate is 1 when the fingerprint lookup is
\* made, and when get_next_target has returned every candidate it examined
\* (returned or skipped) has scanned = 1.
C4_MarkBeforeCheck ==
    /\ pc = "lookup" => targets[cand].scanned = 1
    /\ Returned => \A u \in examined : u \in DOMAIN targets /\ targets[u].scanned = 1

\* C11: get_scanned makes at most three attempts, one reconnect after each
\* that fails with a disconnect; when the third fails too the process ends;
\* the call goes on with "found" only when the fingerprint is recorded and
\* with "not found" only when it is not.
C11_BoundedLookupRetry ==
    /\ [](pc = "lookup" => attempt \in 0..2)
    /\ [][pc = "lookup" /\ pc' = "lookup" =>
            attempt' = attempt + 1 /\ db' = db + 1]_vars
    /\ [][pc = "lookup" /\ attempt = 2 /\ pc' \notin {"fetch", "insert"} =>
            pc' \in {"crashed", "exited"}]_vars
    /\ [][pc = "lookup" =>
            /\ pc' = "fetch" => fp(cand) \in fingerprints
            /\ pc' = "insert" => fp(cand) \notin fingerprints]_vars

\* the third attempt of a lookup failed with a disconnect as the first two
\* had: the process has ended
C11_Witness == pc = "crashed" /\ lastOp = "get_next_target"

\* C12: a round of mark_scanned or get_scanned runs its statement on the
\* connection self.db holds (after a disconnect: the one self.connect() has
\* just opened); any other error ends the process at once.
C12_RetryOnFreshConnection ==
    /\ [](pc \in {"mark", "lookup"} => cursor_db = db)
    /\ [][mark_scanned_error \/ get_scanned_error => pc' = "exited"]_vars

\* C5: a row that is scanned stays scanned while it exists, unless the step
\* is flush_fingerprints.
C5_ScannedIsTerminal ==
    [][\A u \in DOMAIN targets \cap DOMAIN targets' :
          targets[u].scanned = 1 /\ targets'[u].scanned # 1
              => lastOp' = "flush_fingerprints"]_vars

\* C6: after add_target(url, source) or add_targets(urls, source) the row of
\* each url added bears that source (one row per url: targets is a function
\* of the url).
C6_UpsertLatestSource ==
    [][/\ \A url \in URLS, source \in SOURCES :
            add_target(url, source) =>
                url \in DOMAIN targets' /\ targets'[url].source = source
       /\ \A urls \in SUBSET URLS, source \in SOURCES :
            add_targets(urls, source) =>
                \A url \in urls :
                    url \in DOMAIN targets' /\ targets'[url].source = source]_vars

\* C7: a flush_fingerprints that returns (a database error ends the process
\* instead) empties fingerprints, sets scanned = 0 on every row and deletes
\* none; the first get_next_target after it returns the row it fetches, so
\* it returns None only on an empty table.
C7_FlushFingerprints ==
    /\ [][(lastOp' = "flush_fingerprints" /\ pc' = "idle") =>
            /\ fingerprints' = {}
            /\ DOMAIN targets' = DOMAIN targets
            /\ \A u \in DOMAIN targets :
                  targets'[u] = [targets[u] EXCEPT !.scanned = 0]]_vars
    /\ []((lastOp = "flush_fingerprints" /\ pc = "idle") =>
            fingerprints = {} /\ Unscanned(targets) = DOMAIN targets)
    /\ [](/\ pc = "idle" /\ lastOp = "get_next_target"
          /\ flushed # {} /\ \A u \in URLS : claimed[u] = 0
          => DOMAIN targets = {})

\* a url claimed before the flush is returned again
C7_Witness ==
    /\ pc = "idle" /\ lastOp = "get_next_target"
    /\ ret # None /\ ret \in flushed

\* C8: only flush_fingerprints removes a fingerprint.
C8_FingerprintsPersist ==
    [][fingerprints \subseteq fingerprints' \/ lastOp' = "flush_fingerprints"]_vars

\* the fingerprint of a claimed target is still recorded after delete_target
\* removed its row
C8_Witness ==
    /\ fingerprints # {}
    /\ lastOp = "delete_target" /\ pc = "idle"
    /\ \E u \in URLS : claimed[u] = 1 /\ u \notin DOMAIN targets

\* C9: a flush_targets that returns (a database error ends the process
\* instead) leaves no row in targets and leaves fingerprints and the
\* blocklist table as they were.
C9_FlushTargets ==
    [][(lastOp' = "flush_targets" /\ pc' = "idle") =>
          /\ targets' = NoRows
          /\ fingerprints' = fingerprints
          /\ blocklist' = blocklist]_vars

\* flush_targets ran with fingerprints recorded and a blocklist item stored
C9_Witness ==
    /\ lastOp = "flush_targets" /\ pc = "idle"
    /\ targets = NoRows /\ fingerprints # {} /\ blocklist # {}

\* C17: in a scan, a report is written for a target exactly when the scanner
\* returned something other than False; whatever it returned, the target
\* keeps scanned = 1 and its fingerprint, has been claimed once, and the
\* loop goes on (scanned is counted up, the store is not touched).
C17_ScannerFailureConsumes ==
    /\ [](\A s \in scans :
            /\ s.report <=> s.results # False
            /\ s.url \in DOMAIN targets /\ targets[s.url].scanned = 1
            /\ fp(s.url) \in fingerprints
            /\ claimed[s.url] = 1)
    /\ [][pc = "scanning" =>
            /\ pc' = "loop" /\ scanned' = scanned + 1
            /\ targets' = targets /\ fingerprints' = fingerprints
            /\ \E results \in RESULTS :
                   scans' = scans \cup {[url |-> ret, results |-> results,
                                         report |-> results # False]}]_vars

\* after a scan that returned False, with no report, the loop has claimed
\* the next target
C17_Witness ==
    /\ pc = "claimed" /\ ret # None
    /\ \E s \in scans : s.results = False /\ ~s.report /\ s.url # ret

\* the parameters of a url's query, the name and the value of a parameter
ParamList(url) == Split(url.query, "&")
Name(param)    == Split1(param, "=")[1]
Value(param)   == IF Len(Split1(param, "=")) = 2 THEN Split1(param, "=")[2] ELSE <<>>

\* u and v are the same but for the values of their parameters
DifferOnlyInValues(u, v) ==
    /\ u.netloc = v.netloc /\ u.path = v.path
    /\ Len(ParamList(u)) = Len(ParamList(v))
    /\ \A i \in 1..Len(ParamList(u)) : Name(ParamList(u)[i]) = Name(ParamList(v)[i])

\* u and v are the same but for the order of their parameters
DifferOnlyInOrder(u, v) ==
    /\ u.netloc = v.netloc /\ u.path = v.path
    /\ Len(ParamList(u)) = Len(ParamList(v))
    /\ \E perm \in Orders(1..Len(ParamList(u))) :
           \A i \in 1..Len(ParamList(u)) : ParamList(v)[i] = ParamList(u)[perm[i]]

\* each parameter has a value in both urls or in neither
ValuesAlike(u, v) ==
    \A i \in 1..Len(ParamList(u)) :
        (Value(ParamList(u)[i]) = <<>>) <=> (Value(ParamList(v)[i]) = <<>>)

\* C18 as claimed: the same fingerprint for two urls that differ only in
\* the values of their parameters, or only in the order of their parameters,
\* or not at all.
C18_FingerprintInvariance ==
    (/\ result.done
     /\ \/ DifferOnlyInValues(arg.u, arg.v)
        \/ DifferOnlyInOrder(arg.u, arg.v)
        \/ arg.u = arg.v) => result.u = result.v

\* C18 amended: the same, where urls that differ in values have each
\* parameter empty in both or non-empty in both.
C18_FingerprintInvarianceNonEmpty ==
    (/\ result.done
     /\ \/ DifferOnlyInValues(arg.u, arg.v) /\ ValuesAlike(arg.u, arg.v)
        \/ DifferOnlyInOrder(arg.u, arg.v)
        \/ arg.u = arg.v) => result.u = result.v

\* two urls whose parameters come in a different order got one fingerprint
C18_Witness ==
    /\ result.done /\ result.u = result.v
    /\ arg.u # arg.v
    /\ DifferOnlyInOrder(arg.u, arg.v) /\ ~DifferOnlyInValues(arg.u, arg.v)

\* the names of a url's parameters, and of those that have a value
Names(u) == {Name(ParamList(u)[i]) : i \in 1..Len(ParamList(u))}
ValuedNames(u) ==
    {Name(ParamList(u)[i]) : i \in {j \in 1..Len(ParamList(u)) : Value(ParamList(u)[j]) # <<>>}}

\* C19 as claimed: two urls of one host whose paths differ, or whose sets
\* of parameter names differ, get different fingerprints.
C19_FingerprintDiscrimination ==
    (/\ result.done
     /\ arg.u.netloc = arg.v.netloc
     /\ \/ arg.u.path # arg.v.path
        \/ Names(arg.u) # Names(arg.v)) => result.u # result.v

\* the last segment of the url's path holds no "|"
PlainPage(u) == \A i \in 1..Len(Page(u.path)) : Page(u.path)[i] # "|"

\* no name of a parameter of the url that has a value is empty or holds a ","
PlainNames(u) ==
    \A n \in ValuedNames(u) : n # <<>> /\ \A i \in 1..Len(n) : n[i] # ","

\* C19 amended: two urls of one host get different fingerprints when their
\* paths differ in depth; when, neither last segment holding a "|", the last
\* segments differ; and when, neither last segment holding a "|" and no
\* name of a parameter with a non-empty value being empty or holding a ",",
\* the sets of names of their parameters with a non-empty value differ.
C19_FingerprintDiscriminationByDepthPage ==
    (/\ result.done
     /\ arg.u.netloc = arg.v.netloc
     /\ \/ Depth(arg.u.path) # Depth(arg.v.path)
        \/ /\ PlainPage(arg.u) /\ PlainPage(arg.v)
           /\ \/ Page(arg.u.path) # Page(arg.v.path)
              \/ /\ PlainNames(arg.u) /\ PlainNames(arg.v)
                 /\ ValuedNames(arg.u) # ValuedNames(arg.v)) => result.u # result.v

\* two urls of one path got different fingerprints for the names x and x|,
\* where a page x|x without parameters would have collided with the second
C19_Witness ==
    /\ result.done /\ result.u # result.v
    /\ arg.u.path = arg.v.path /\ PlainPage(arg.u)
    /\ ValuedNames(arg.u) = {<<"x">>} /\ ValuedNames(arg.v) = {<<"x", "|">>}

\* target.ip holds an address
Resolved(target) == target.ip \notin {NoIp, Unset}

\* C13: match returns True exactly when the compiled alternation matches the
\* url from its start, or the host is a member of host_set, or the address
\* is resolved and lies in a network of ip_set.  With the one rule
\* ip:10.0.0.0/24 the address 10.0.0.5 matches and 10.0.1.5 does not; with
\* the one rule host:evil.com the host sub.evil.com does not match.
C13_MatchIffAnyTest ==
    result.done =>
        /\ result.outcome = "True" <=>
               \/ /\ result.self.regex # NoRegex
                  /\ \E p \in result.self.regex_set : PatMatch(p, url_text(arg.url))
               \/ result.target.host \in result.self.host_set
               \/ /\ Resolved(result.target)
                  /\ \E n \in result.self.ip_set : InNetwork(result.target.ip, n)
        /\ arg.items = <<ItemIp24>> =>
               /\ result.target.ip = <<10, 0, 0, 5>> => result.outcome = "True"
               /\ result.target.ip = <<10, 0, 1, 5>> => result.outcome = "False"
        /\ arg.items = <<ItemHostEvil>> /\ arg.url = USub => result.outcome = "False"

\* match answered for a subdomain of a listed host and an address outside
\* the listed network
C13_Witness ==
    /\ result.done
    /\ arg.items = <<ItemHostEvil, ItemIp24>> /\ arg.url = USub
    /\ result.outcome = "False"

\* C14: after loading the item regex:^http://evil\. the stored pattern is
\* the whole text after the prefix, and match returns True exactly for the
\* urls that start with http://evil.
C14_RegexStoredWhole ==
    (result.done /\ arg.items = <<ItemRegexEvil>>) =>
        /\ result.self.regex_set = {<<"^", "http", ":", "//", "evil", "\\.">>}
        /\ result.outcome = "True" <=>
               StartsWith(url_text(arg.url), <<"http", ":", "//", "evil", ".">>)

\* the rules of the items of a list that have the given prefix
Rules(items, prefix) ==
    {Split(items[i], ":")[2] :
         i \in {j \in 1..Len(items) : StartsWith(items[j], <<prefix, ":">>)}}

\* C15: parse_list completes without raising on any list of items, and its
\* sets hold exactly the rules of the well-formed items: an item with an
\* unknown prefix or a malformed ip item adds nothing, wherever it stands.
C15_BulkLoadToleratesBadItems ==
    result # Nothing =>
        /\ ~result.raised
        /\ result.self.ip_set =
               {ip_network(r) : r \in Rules(arg.items, "ip")} \ {ValueError}
        /\ result.self.host_set = Rules(arg.items, "host")
        /\ result.self.regex_set = Rules(arg.items, "regex")

\* C16: a Target whose host was not resolved (no hostname in the url, or
\* any failure of the resolver) carries ip = None, and match on a blocklist
\* with a non-empty ip_set returns without raising, True only through the
\* regex or the host test.
C16_ResolutionFailureNeverError ==
    (result.done /\ ~Resolved(result.target) /\ result.self.ip_set # {}) =>
        /\ result.target.ip = NoIp
        /\ result.outcome \in {"True", "False"}
        /\ result.outcome = "True" =>
               \/ \E p \in result.self.regex_set : PatMatch(p, url_text(arg.url))
               \/ result.target.host \in result.self.host_set

Prunes == {"prune", "prune_random"}

\* C10 as claimed, for randomize on: a shuffled prune pass that follows a
\* prune pass leaves targets as they were.
C10_PruneIdempotentAnyOrder ==
    [][(lastOp \in Prunes /\ lastOp' = "prune_random") => (targets' = targets)]_vars

\* the order urls restricted to the rows that are left
Surviving(urls, t) == SelectSeq(urls, LAMBDA u : u \in DOMAIN t)

\* C10 amended: a prune pass that follows a prune pass and goes over the
\* surviving rows in the same order leaves targets as they were.
C10_PruneIdempotentSameOrder ==
    [][(/\ lastOp \in Prunes /\ lastOp' \in Prunes
        /\ order' = Surviving(order, targets))
       => (targets' = targets)]_vars

\* a pass marked a url scanned, as a duplicate of an earlier one, that an
\* instance matches
C10_Witness ==
    /\ lastOp \in Prunes
    /\ fingerprints = {}
    /\ \E u \in DOMAIN targets : targets[u].scanned = 1 /\ MatchesSome(u)

\* the i-th url of a pass has a fingerprint that is recorded, or that an
\* earlier url of the pass had which no instance matches (such a url, or one
\* before it, put the fingerprint into the set of the pass)
Duplicate(urls, i) ==
    \/ fp(urls[i]) \in fingerprints
    \/ \E j \in 1..(i-1) : fp(urls[j]) = fp(urls[i]) /\ ~MatchesSome(urls[j])

\* C20: a prune pass decides each url in turn: a url whose fingerprint was
\* seen earlier in the pass or is recorded is marked scanned and stays, also
\* when an instance matches it; otherwise a url that an instance matches
\* loses its row and its fingerprint does not count as seen; otherwise its
\* row is unchanged and its fingerprint counts as seen.  The set of recorded
\* fingerprints is unchanged.
C20_PrunePerTargetDecision ==
    [][(Idle /\ lastOp' \in Prunes) =>
          /\ fingerprints' = fingerprints
          /\ \A i \in 1..Len(order') :
                LET u == order'[i]
                IN  /\ Duplicate(order', i) =>
                          /\ u \in DOMAIN targets'
                          /\ targets'[u] = [targets[u] EXCEPT !.scanned = 1]
                    /\ (~Duplicate(order', i) /\ MatchesSome(u)) =>
                          u \notin DOMAIN targets'
                    /\ (~Duplicate(order', i) /\ ~MatchesSome(u)) =>
                          u \in DOMAIN targets' /\ targets'[u] = targets[u]]_vars

\* a pass deleted two urls of one fingerprint: the first did not put the
\* fingerprint into the set of the pass
C20_Witness ==
    /\ lastOp \in Prunes
    /\ Len(order) = 2 /\ fp(order[1]) = fp(order[2])
    /\ DOMAIN targets = {}

\* C21: after Blocklist.add of a regex item the compiled alternation of the
\* instance includes the pattern, and match on the instance returns True for
\* every url the pattern matches from its start.
C21_AddedRegexTakesEffect ==
    [][\A item \in BLITEMS :
          (StartsWith(item, <<"regex", ":">>) /\ blocklist_add(item) /\ pc' = "idle") =>
              /\ blocklists'[1].regex # NoRegex
              /\ Split(item, ":")[2] \in blocklists'[1].regex
              /\ \A u \in MATCHURLS :
                    PatMatch(Split(item, ":")[2], url_text(u)) =>
                        match(blocklists'[1], Target(u))]_vars

\* C23: after any sequence of add, delete and flush that returned, the rule
\* sets and the
\* compiled alternation of the instance equal those of a Blocklist freshly
\* built from the table, and so do get_parsed_items and match; an item that
\* was deleted is not listed and causes no match.
C23_CacheCoherence ==
    pc = "idle" => \A items \in Orders(blocklist) :
        LET self  == blocklists[1]
            fresh == Blocklist(items)
        IN  /\ self.ip_set = fresh.ip_set
            /\ self.host_set = fresh.host_set
            /\ self.regex_set = fresh.regex_set
            /\ self.regex = fresh.regex
            /\ get_parsed_items(self) = get_parsed_items(fresh)
            /\ get_parsed_items(self) \subseteq blocklist
            /\ \A u \in MATCHURLS :
                  match(self, Target(u)) <=> match(fresh, Target(u))

\* C22: every connect of the scan loop is followed by a close before the
\* next connect and before the loop is left, whether the target was scanned,
\* deleted for a blocklist match, or there was none; no connection the loop
\* opened is open while the scanner runs.
C22_ConnectionDiscipline ==
    /\ [][opened' > opened => opened = 0]_vars
    /\ [][(mode = "scan" /\ mode' = "api") => opened = 0]_vars
    /\ [](pc = "scanning" => opened = 0)

\* an unscanned row of t that no instance matches has the fingerprint f
Waiting(t, f) ==
    \E u \in DOMAIN t : t[u].scanned # 1 /\ fp(u) = f /\ ~MatchesSome(u)

\* C24: in a scan run with count = -1, a claimed target that is deleted for
\* matching a blocklist does not leave its fingerprint recorded while an
\* unscanned target of that fingerprint that no blocklist matches is waiting
\* (which get_next_target would then skip, so that no target of the
\* fingerprint reaches the scanner).
C24_NoStarvationByBlockedDuplicate ==
    [][(mode = "scan" /\ count = -1 /\ pc = "claimed" /\ pc' = "loop") =>
          ~(fp(ret) \in fingerprints' /\ Waiting(targets', fp(ret)))]_vars

\* C25: scan with count = -1 terminates: while scan runs the number of rows
\* with scanned != 1 never grows, every call of get_next_target that returns
\* a target leaves it smaller than it was when the call began, and the loop
\* is left in the end.
C25_ScanTerminates ==
    /\ [][(mode = "scan" /\ mode' = "scan") =>
              Cardinality(Unscanned(targets')) <= Cardinality(Unscanned(targets))]_vars
    /\ [][(mode = "scan" /\ pc # "claimed" /\ pc' = "claimed" /\ ret' # None) =>
              Cardinality(Unscanned(targets')) < Cardinality(Unscanned(txn))]_vars
    /\ (mode = "scan" /\ count = -1) ~> (mode = "api")

\* the loop with count = -1 is about to be left, two iterations after it
\* was entered: one target was scanned and one was deleted
C25_Witness ==
    /\ mode = "scan" /\ count = -1
    /\ pc = "claimed" /\ ret = None
    /\ scans # {}
    /\ \E u \in URLS : claimed[u] > 0 /\ u \notin DOMAIN targets

\* C26: scan's counter is the number of targets the scanner was run on,
\* failed scans included and skipped or deleted targets not; for count >= 0
\* the scanner is run at most count times (it is running only while fewer
\* than count runs are done); for count = -1 the loop is left only when
\* get_next_target returned None.
C26_ScanCountBound ==
    /\ [](mode = "scan" => scanned = Cardinality(scans))
    /\ []((mode = "scan" /\ count >= 0) => Cardinality(scans) <= count)
    /\ []((pc = "scanning" /\ count >= 0) => Cardinality(scans) < count)
    /\ [][(mode = "scan" /\ count = -1 /\ mode' = "api") =>
              (pc = "claimed" /\ ret = None)]_vars

\* count = 1 is used up by a failed scan while an unscanned row is left
C26_Witness ==
    /\ mode = "scan" /\ count = 1 /\ pc = "loop"
    /\ \E s \in scans : s.results = False
    /\ Unscanned(targets) # {}

=============================================================================
